---- MODULE Spec2Model ----
(***************************************************************************)
(* The data caching and retrieval layer of the dashboard:                  *)
(*   utils/data_manager.py     DataManager (one combined snapshot that     *)
(*                             carries its own fetch timestamp)            *)
(*   utils/data_processing.py  get_segmented_data (one file per symbol and *)
(*                             period, plus a freshness ledger)            *)
(* Time is counted in ticks; TicksPerDay ticks make one day.  Percent      *)
(* changes are counted in units of 1/10000 (0.10 is 1000, 10.0 is 100000). *)
(***************************************************************************)
EXTENDS Integers, Sequences, FiniteSets, TLC

VARIABLES
    page,        \* the page whose callbacks this session fires
    now,         \* datetime.now(), in ticks
    _data,       \* DataManager._data: None or a frame
    cache_file,  \* the content of DataManager.cache_file
    dm,          \* record of the DataManager call that has just returned
    cache_info,  \* the content of CACHE_INFO_FILE (the freshness ledger)
    csv_files,   \* the content of the file of each symbol and period
    seg,         \* record of the data_processing call that has just returned
    threads      \* where each request thread of the server is in get_stock_data

vars ==
    <<page, now, _data, cache_file, dm, cache_info, csv_files, seg, threads>>

dm_vars == <<_data, cache_file, dm>>
seg_vars == <<cache_info, csv_files, seg>>

-----------------------------------------------------------------------------
(* Bounds of the model *)

TicksPerDay == 2
MaxNow == 3


-----------------------------------------------------------------------------
(* Values *)

\* A float or a datetime value is <<v>>; NaN and NaT are the empty tuple.
None == [none |-> TRUE]
NaN == <<>>
NaT == <<>>

Symbols == {"COP", "NEE"}
DMPeriods == {"1mo", "1y"}

\* TLC evaluates a function constructor anew at every application: Tuple
\* and Table are the sequence and the function with their values computed.
Tuple(f) == SubSeq(f, 1, Len(f))
Table(f) == f @@ <<>>

SeqsUpTo(S, n) == UNION {[1..k -> S] : k \in 0..n}

\* The symbol lists a caller passes, repeated symbols included.
Requests == SeqsUpTo(Symbols, Cardinality(Symbols))

Range(f) == {f[x] : x \in DOMAIN f}

\* Faulty variant: the rows are not filtered by symbol
SelectRows_all(rows, sym) == rows

RECURSIVE SelectRows(_, _)
SelectRows(rows, sym) ==
    IF rows = <<>> THEN <<>>
    ELSE IF Head(rows).Symbol = sym
         THEN <<Head(rows)>> \o SelectRows(Tail(rows), sym)
         ELSE SelectRows(Tail(rows), sym)

-----------------------------------------------------------------------------
(* The provider (yfinance).  The market is closed during the session: a    *)
(* symbol's history is fixed, and the period selects how much of it the    *)
(* provider returns.                                                       *)

History(symbol) ==
    IF symbol = "COP" THEN <<100, 110, 99>> ELSE <<50, 40, 44>>

PeriodRows(period) == IF period = "1mo" THEN 2 ELSE 3

\* yf.download(symbol, period=period): rows in increasing date order.
Download(symbol, period) ==
    LET h == History(symbol)
        n == PeriodRows(period)
        first == Len(h) - n
    IN  Tuple([i \in 1..n |->
                 [Date |-> first + i, AdjClose |-> h[first + i]]])

\* What one provider call does: "ok" returns rows, "raise" throws, "empty"
\* returns no rows, "bad" returns rows without an 'Adj Close' column.
FailureKinds == {"raise", "empty", "bad"}

MAX_RETRY_ATTEMPTS == 3

\* An outage of the provider for one symbol: the next `fails` calls fail in
\* manner `kind`, every later call succeeds.
NoOutage == [fails |-> 0, kind |-> "ok"]

Outages ==
    {NoOutage} \cup [fails : {1, MAX_RETRY_ATTEMPTS}, kind : FailureKinds]

Attempt(outage, n) == IF n <= outage.fails THEN outage.kind ELSE "ok"

-----------------------------------------------------------------------------
(* pandas *)

\* Series.pct_change() over a column of prices: NaN first, then the
\* fractional change from the previous row.
pct_change(prices) ==
    Tuple([i \in 1..Len(prices) |->
             IF i = 1 THEN NaN
             ELSE <<((prices[i] - prices[i - 1]) * 10000)
                       \div prices[i - 1]>>])

EmptyFrame == [columns |-> {}, rows |-> <<>>]

-----------------------------------------------------------------------------
(* DataManager *)

cache_duration == TicksPerDay

required_columns ==
    {"Date", "Adj Close", "Close", "High", "Low", "Open", "Volume", "Symbol",
     "Pct_Change"}

\* Faulty variant: the download never has the columns the selection needs
_process_stock_data_keyerror(kind, stock, symbol) == EmptyFrame

\* _process_stock_data: the rows of one download with Symbol and Pct_Change
\* set; an empty frame when the download has no 'Adj Close' column.
_process_stock_data(kind, stock, symbol) ==
    IF kind = "bad" THEN EmptyFrame
    ELSE LET pc == pct_change(Tuple([i \in 1..Len(stock) |->
                                       stock[i].AdjClose]))
         IN  [columns |-> required_columns,
              rows |-> Tuple([i \in 1..Len(stock) |->
                               [Date |-> stock[i].Date,
                                AdjClose |-> stock[i].AdjClose,
                                Symbol |-> symbol,
                                Pct_Change |-> pc[i],
                                timestamp |-> NaT]])]

\* The content of a cache file: absent, or text.  Text that pandas cannot
\* read as a table with a Date column is "garbage"; otherwise it is a header
\* and one line of cells per row, each cell the text of a value.
Absent == [kind |-> "absent"]
Garbage == [kind |-> "garbage"]

\* The text of a value (one tuple per cell, empty for NaN and NaT), and the
\* value read back from a cell.
Text(v) == <<v>>
Blank == <<>>
Cell(v) == IF v = <<>> THEN Blank ELSE v
\* Faulty variant: every cell that may be blank is read as missing
Parse_missing(cell) == <<>>

Parse(cell) == IF cell = Blank THEN <<>> ELSE cell
Value(cell) == cell[1]

\* DataFrame.to_csv(cache_file, index=False)
to_csv(df) ==
    [kind |-> "csv",
     header |-> df.columns,
     lines |-> Tuple([i \in 1..Len(df.rows) |->
                  [Date |-> Text(df.rows[i].Date),
                   AdjClose |-> Text(df.rows[i].AdjClose),
                   Symbol |-> Text(df.rows[i].Symbol),
                   Pct_Change |-> Cell(df.rows[i].Pct_Change),
                   timestamp |-> IF "timestamp" \in df.columns
                                 THEN Cell(df.rows[i].timestamp)
                                 ELSE Blank]])]

\* pd.read_csv followed by pd.to_datetime on Date and timestamp
read_csv(file) ==
    [columns |-> file.header,
     rows |-> Tuple([i \in 1..Len(file.lines) |->
                 [Date |-> Value(file.lines[i].Date),
                  AdjClose |-> Value(file.lines[i].AdjClose),
                  Symbol |-> Value(file.lines[i].Symbol),
                  Pct_Change |-> Parse(file.lines[i].Pct_Change),
                  timestamp |-> Parse(file.lines[i].timestamp)]])]

\* A timestamp with a UTC offset; datetime.now() minus it raises TypeError.
Naive(t) == <<t>>
Aware(t) == <<t, "UTC">>
IsAware(ts) == Len(ts) = 2

\* Faulty variant: a file that cannot be read makes the call fail instead of
\* counting as no cache (the frame stands for the exception, caught only by
\* the caller's handler)
_load_cache_unguarded(file) ==
    IF file.kind = "absent" THEN None
    ELSE IF file.kind = "garbage"
    THEN [columns |-> {"timestamp"},
          rows |-> <<[Date |-> 0, AdjClose |-> 0, Symbol |-> "",
                      Pct_Change |-> NaN, timestamp |-> Aware(0)]>>]
    ELSE read_csv(file)

_load_cache(file) ==
    IF file.kind = "absent" THEN None
    ELSE IF file.kind = "garbage" THEN None
    ELSE read_csv(file)

_save_cache(file, df, save_ok) == IF save_ok THEN to_csv(df) ELSE file

\* Faulty variant: a snapshot of exactly cache_duration still counts as valid
CacheCheck_inclusive(d, t) ==
    IF d = None THEN "invalid"
    ELSE IF d.rows = <<>> THEN "invalid"
    ELSE IF "timestamp" \notin d.columns THEN "invalid"
    ELSE LET last_update == d.rows[1].timestamp
         IN  IF last_update = NaT THEN "invalid"
             ELSE IF IsAware(last_update) THEN "raise"
             ELSE IF (t - last_update[1]) <= cache_duration THEN "valid"
             ELSE "invalid"

\* Lines 60-64: "valid", "invalid", or "raise".
CacheCheck(d, t) ==
    IF d = None THEN "invalid"
    ELSE IF d.rows = <<>> THEN "invalid"
    ELSE IF "timestamp" \notin d.columns THEN "invalid"
    ELSE LET last_update == d.rows[1].timestamp
         IN  IF last_update = NaT THEN "invalid"
             ELSE IF IsAware(last_update) THEN "raise"
             ELSE IF (t - last_update[1]) < cache_duration THEN "valid"
             ELSE "invalid"

\* Faulty variant: the stored Pct_Change is returned as it is
_process_data_trusting(df, symbols) ==
    IF ~({"Symbol", "Adj Close", "Date"} \subseteq df.columns) THEN <<>>
    ELSE LET present == {s \in Range(symbols) : SelectRows(df.rows, s) # <<>>}
         IN  Table([s \in present |-> SelectRows(df.rows, s)])

\* _process_data: the dict of per-symbol frames, indexed by Date, with
\* Pct_Change recomputed; {} when the frame lacks a column it reads.
_process_data(df, symbols) ==
    IF ~({"Symbol", "Adj Close", "Date"} \subseteq df.columns) THEN <<>>
    ELSE LET present == {s \in Range(symbols) : SelectRows(df.rows, s) # <<>>}
         IN  Table([s \in present |->
                LET symbol_data == SelectRows(df.rows, s)
                    pc == pct_change(Tuple([i \in 1..Len(symbol_data) |->
                                              symbol_data[i].AdjClose]))
                IN  Tuple([i \in 1..Len(symbol_data) |->
                             [symbol_data[i] EXCEPT !.Pct_Change = pc[i]]])])

\* No provider call for any position of the request.
NoCalls(symbols) == Tuple([i \in 1..Len(symbols) |-> 0])

\* Faulty variant: the loop ends at the first symbol that fails
RECURSIVE Fetch_break(_, _, _)
Fetch_break(symbols, period, outages) ==
    IF symbols = <<>> THEN [frames |-> <<>>, calls |-> <<>>]
    ELSE LET kind == Attempt(Head(outages), 1)
             rest == Fetch_break(Tail(symbols), period, Tail(outages))
         IN  IF kind = "ok"
             THEN [frames |-> <<_process_stock_data(
                                  kind, Download(Head(symbols), period),
                                  Head(symbols))>> \o rest.frames,
                   calls |-> <<1>> \o rest.calls]
             ELSE [frames |-> <<>>,
                   calls |-> <<1>> \o NoCalls(Tail(symbols))]

\* Lines 69-81: the frames appended to all_stock_data, in request order,
\* and the number of yf.download calls made for each position.
RECURSIVE Fetch(_, _, _)
Fetch(symbols, period, outages) ==
    IF symbols = <<>> THEN [frames |-> <<>>, calls |-> <<>>]
    ELSE LET kind == Attempt(Head(outages), 1)
             stock == IF kind \in {"ok", "bad"}
                      THEN Download(Head(symbols), period) ELSE <<>>
             processed_stock ==
                 IF kind \in {"raise", "empty"} THEN EmptyFrame
                 ELSE _process_stock_data(kind, stock, Head(symbols))
             rest == Fetch(Tail(symbols), period, Tail(outages))
         IN  [frames |-> IF processed_stock.rows # <<>>
                         THEN <<processed_stock>> \o rest.frames
                         ELSE rest.frames,
              calls |-> <<1>> \o rest.calls]

\* pd.concat(all_stock_data, ignore_index=True) with the timestamp column set
RECURSIVE Concat(_)
Concat(frames) ==
    IF frames = <<>> THEN <<>>
    ELSE Head(frames).rows \o Concat(Tail(frames))

\* Faulty variant: the rows keep the timestamp they came with
Combined_unstamped(frames, t) ==
    [columns |-> required_columns \cup {"timestamp"}, rows |-> Concat(frames)]

Combined(frames, t) ==
    LET rows == Concat(frames)
    IN  [columns |-> required_columns \cup {"timestamp"},
         rows |-> Tuple([i \in 1..Len(rows) |->
                          [rows[i] EXCEPT !.timestamp = Naive(t)]])]

\* The age of the snapshot at the freshness check; -1 when it has none.
Age(d, t) ==
    IF d = None THEN -1
    ELSE IF d.rows = <<>> \/ "timestamp" \notin d.columns THEN -1
    ELSE IF Len(d.rows[1].timestamp) # 1 THEN -1
    ELSE t - d.rows[1].timestamp[1]

\* The record of a call, kept until its caller has taken the result:
\* `check` is the outcome of the freshness check and `age` the age of the
\* snapshot it saw, `calls[i]` the number of provider calls made for
\* position i of the request, `fails[i]` the number of consecutive calls
\* for which the provider was down for that position, `period` the period
\* passed to yf.download ("" when no download was made).
NoCall == [op |-> "none", symbols |-> <<>>, period |-> "",
           check |-> "invalid", age |-> -1,
           result |-> <<>>, raised |-> FALSE, calls |-> <<>>,
           fails |-> <<>>, saved |-> FALSE]

Idle == dm.op = "none"

\* get_stock_data as a whole: the new _data, the new file, and the record of
\* the call.  `caught` is what the try block of lines 54-96 does with an
\* exception: TRUE returns {}, FALSE lets it reach the caller.
get_stock_data_from(d0, file, t, symbols, period, outages, save_ok, caught) ==
    LET d1 == IF d0 = None THEN _load_cache(file) ELSE d0
        check == CacheCheck(d1, t)
        fetched == Fetch(symbols, period, outages)
        all_stock_data == fetched.frames
        combined_data == Combined(all_stock_data, t)
        call == [op |-> "get_stock_data", symbols |-> symbols,
                 period |-> IF check = "invalid" /\ symbols # <<>>
                            THEN period ELSE "",
                 check |-> check, age |-> Age(d1, t), result |-> <<>>,
                 raised |-> FALSE, calls |-> NoCalls(symbols),
                 fails |-> Tuple([i \in DOMAIN outages |-> outages[i].fails]),
                 saved |-> FALSE]
    IN  IF check = "raise"
        THEN [data |-> d1, file |-> file,
              call |-> [call EXCEPT !.raised = ~caught]]
        ELSE IF check = "valid"
        THEN [data |-> d1, file |-> file,
              call |-> [call EXCEPT !.result = _process_data(d1, symbols)]]
        ELSE IF all_stock_data # <<>>
        THEN [data |-> combined_data,
              file |-> _save_cache(file, combined_data, save_ok),
              call |-> [call EXCEPT
                          !.result = _process_data(combined_data, symbols),
                          !.calls = fetched.calls,
                          !.saved = save_ok]]
        ELSE [data |-> d1, file |-> file,
              call |-> [call EXCEPT !.calls = fetched.calls]]

\* Faulty variant: no try block around the body
get_stock_data_uncaught(d0, file, t, symbols, period, outages, save_ok) ==
    get_stock_data_from(d0, file, t, symbols, period, outages, save_ok, FALSE)

\* Faulty variant: the frame handed to _process_data is the snapshot itself, not a
\* copy: set_index moves Date out of the columns of _data
get_stock_data_inplace(d0, file, t, symbols, period, outages, save_ok) ==
    LET r == get_stock_data_from(d0, file, t, symbols, period, outages,
                                 save_ok, TRUE)
    IN  IF r.call.check # "raise" /\ r.data # None /\ r.call.result # <<>>
        THEN [r EXCEPT !.data.columns = @ \ {"Date"}]
        ELSE r

\* Faulty variant: a failed write of the cache file aborts the call
get_stock_data_savefatal(d0, file, t, symbols, period, outages, save_ok) ==
    LET r == get_stock_data_from(d0, file, t, symbols, period, outages,
                                 save_ok, TRUE)
    IN  IF r.call.check = "invalid" /\ ~save_ok
        THEN [r EXCEPT !.call.result = <<>>]
        ELSE r

\* Faulty variant: a call served from the snapshot returns of each series only
\* the rows the requested period covers
get_stock_data_period_cut(d0, file, t, symbols, period, outages, save_ok) ==
    LET r == get_stock_data_from(d0, file, t, symbols, period, outages,
                                 save_ok, TRUE)
        cut(rows) == IF Len(rows) <= PeriodRows(period) THEN rows
                     ELSE SubSeq(rows, Len(rows) - PeriodRows(period) + 1,
                                 Len(rows))
    IN  IF r.call.check = "valid"
        THEN [r EXCEPT !.call.result =
                 Table([s \in DOMAIN @ |-> cut(@[s])])]
        ELSE r

\* Faulty variant: a refresh that fetched nothing falls back to the rows of the
\* stale snapshot
get_stock_data_stale_fallback(d0, file, t, symbols, period, outages, save_ok) ==
    LET r == get_stock_data_from(d0, file, t, symbols, period, outages,
                                 save_ok, TRUE)
    IN  IF r.call.check = "invalid" /\ r.call.result = <<>> /\ r.data # None
        THEN [r EXCEPT !.call.result = _process_data(r.data, symbols)]
        ELSE r

\* Faulty variant: the cache file is read at every call
get_stock_data_reload(d0, file, t, symbols, period, outages, save_ok) ==
    get_stock_data_from(None, file, t, symbols, period, outages, save_ok,
                        TRUE)

get_stock_data(d0, file, t, symbols, period, outages, save_ok) ==
    get_stock_data_from(d0, file, t, symbols, period, outages, save_ok, TRUE)

\* The provider is consulted only when the snapshot is not valid, and the
\* file is written only when a fetch succeeded: the inputs a call does not
\* consume are not enumerated.
Refetches(d0, file, t) ==
    CacheCheck(IF d0 = None THEN _load_cache(file) ELSE d0, t) = "invalid"

OutagesFor(d0, file, t, symbols) ==
    IF Refetches(d0, file, t) THEN [1..Len(symbols) -> Outages]
    ELSE {[i \in 1..Len(symbols) |-> NoOutage]}

SaveOutcomes(d0, file, t, outages) ==
    IF Refetches(d0, file, t) /\ \E i \in DOMAIN outages : outages[i].fails = 0
    THEN BOOLEAN ELSE {TRUE}

GetStockData ==
    /\ page = "/data"
    /\ Idle
    /\ \E symbols \in Requests, period \in DMPeriods :
         \E outages \in OutagesFor(_data, cache_file, now, symbols) :
            \E save_ok \in SaveOutcomes(_data, cache_file, now, outages) :
               LET r == get_stock_data(_data, cache_file, now, symbols,
                                       period, outages, save_ok)
               IN  /\ _data' = r.data
                   /\ cache_file' = r.file
                   /\ dm' = r.call
    /\ UNCHANGED <<page, threads, now, seg_vars>>

\* The caller takes the result; the process serves one request at a time.
Return ==
    /\ ~Idle
    /\ dm' = NoCall
    /\ UNCHANGED <<page, threads, now, _data, cache_file, seg_vars>>

\* clear_cache: remove_ok is whether os.remove succeeds.
clear_cache(d0, file, remove_ok) ==
    IF file.kind = "absent" THEN [data |-> None, file |-> file]
    ELSE IF remove_ok THEN [data |-> None, file |-> Absent]
    ELSE [data |-> d0, file |-> file]

ClearCache ==
    /\ page = "/data"
    /\ Idle
    /\ \E remove_ok \in BOOLEAN :
         LET r == clear_cache(_data, cache_file, remove_ok)
         IN  /\ _data' = r.data
             /\ cache_file' = r.file
    /\ dm' = [NoCall EXCEPT !.op = "clear_cache"]
    /\ UNCHANGED <<page, threads, now, seg_vars>>

\* Files that something other than this process left at cache_file: text
\* that is no table, a table of an older layout without the timestamp
\* column, and a table whose timestamps carry a UTC offset.
LegacyFrame(symbol) ==
    [_process_stock_data("ok", Download(symbol, "1mo"), symbol)
        EXCEPT !.columns = required_columns]

AwareFrame(symbol) ==
    LET f == Combined(<<LegacyFrame(symbol)>>, 0)
    IN  [f EXCEPT !.rows = [i \in DOMAIN f.rows |->
                              [f.rows[i] EXCEPT !.timestamp = Aware(0)]]]

HeaderOnly == [columns |-> required_columns \cup {"timestamp"}, rows |-> <<>>]

ForeignFiles ==
    {Garbage, to_csv(HeaderOnly), to_csv(LegacyFrame("COP")),
     to_csv(AwareFrame("COP"))}

ExternalWrite ==
    /\ page = "/data"
    /\ Idle
    /\ \E f \in ForeignFiles : cache_file' = f
    /\ UNCHANGED <<page, threads, now, _data, dm, seg_vars>>

\* The process starts again: DataManager() is constructed anew.
Restart ==
    /\ page = "/data"
    /\ Idle
    /\ _data' = None
    /\ UNCHANGED <<page, threads, now, cache_file, dm, seg_vars>>

-----------------------------------------------------------------------------
(* data_processing *)

\* Faulty variant: every period is refreshed daily
update_frequencies_daily(period) == TicksPerDay

\* The sectors and their symbols, in the order of the dict.
sectors == <<<<"COP">>, <<"NEE">>>>

symbols == Concat([i \in DOMAIN sectors |-> [rows |-> sectors[i]]])

SegPeriods == {"1mo"}

\* A ledger value is text: the date written by strftime("%Y-%m-%d"), or
\* text that is no date.
strftime(t) == [text |-> "date", day |-> t \div TicksPerDay]
Junk == [text |-> "junk", day |-> 0]
IsDate(v) == v.text = "date"
strptime(v) == v.day * TicksPerDay

\* get_cache_info: the dict of the ledger, {} when the file is absent or is
\* no JSON.
Json(entries) == [kind |-> "json", entries |-> entries]

get_cache_info(ledger) ==
    IF ledger.kind = "json" THEN ledger.entries ELSE <<>>

\* update_cache_info: the ledger with the period's entry set.
update_cache_info(ledger, period, last_updated) ==
    LET cache_info_ == get_cache_info(ledger)
    IN  Json([p \in DOMAIN cache_info_ \cup {period} |->
                IF p = period THEN last_updated ELSE cache_info_[p]])

timedelta(days) == days * TicksPerDay

update_frequencies(period) ==
    IF period \in {"1mo", "3mo", "6mo", "1y"} THEN timedelta(1)
    ELSE IF period = "5y" THEN timedelta(7)
    ELSE IF period = "max" THEN timedelta(30)
    ELSE timedelta(1)

\* should_update_data raises when the entry is no date (strptime).
should_update_raises(ledger, period) ==
    LET cache_info_ == get_cache_info(ledger)
    IN  period \in DOMAIN cache_info_ /\ ~IsDate(cache_info_[period])

\* Faulty variant: an update is due as soon as the cadence has elapsed
should_update_data_inclusive(ledger, period, t) ==
    LET cache_info_ == get_cache_info(ledger)
    IN  IF period \notin DOMAIN cache_info_ THEN TRUE
        ELSE t - strptime(cache_info_[period]) >= update_frequencies(period)

should_update_data(ledger, period, t) ==
    LET cache_info_ == get_cache_info(ledger)
    IN  IF period \notin DOMAIN cache_info_ THEN TRUE
        ELSE t - strptime(cache_info_[period]) > update_frequencies(period)

\* ticker.history(period): the rows of the symbol, Close already adjusted.
TickerHistory(symbol, period) ==
    LET d == Download(symbol, period)
    IN  Tuple([i \in DOMAIN d |->
                 [Date |-> d[i].Date, Close |-> d[i].AdjClose]])

\* Series.pct_change() * 100
pct_change_100(prices) ==
    LET pc == pct_change(prices)
    IN  Tuple([i \in DOMAIN pc |->
                 IF pc[i] = NaN THEN NaN ELSE <<pc[i][1] * 100>>])

WithPct(rows) ==
    LET pc == pct_change_100(Tuple([i \in DOMAIN rows |-> rows[i].Close]))
    IN  Tuple([i \in DOMAIN rows |->
                 [Date |-> rows[i].Date, Close |-> rows[i].Close,
                  Pct_Change |-> pc[i]]])

\* download_ticker_data: the frame of a symbol, empty when the provider
\* raises or has no rows.
download_ticker_data(kind, symbol, period) ==
    IF kind \in {"raise", "empty"} THEN EmptyFrame
    ELSE [columns |-> {"Date", "Close", "Pct_Change"},
          rows |-> WithPct(TickerHistory(symbol, period))]

\* df.to_csv(csv_file), the Date index written as the first column
seg_to_csv(df) ==
    [kind |-> "csv",
     header |-> df.columns,
     lines |-> Tuple([i \in 1..Len(df.rows) |->
                  [Date |-> Text(df.rows[i].Date),
                   Close |-> Text(df.rows[i].Close),
                   Pct_Change |-> IF "Pct_Change" \in df.columns
                                  THEN Cell(df.rows[i].Pct_Change)
                                  ELSE Blank]])]

\* pd.read_csv(csv_file), Date parsed and set as the index
seg_read_csv(file) ==
    [columns |-> file.header,
     rows |-> Tuple([i \in 1..Len(file.lines) |->
                 [Date |-> Value(file.lines[i].Date),
                  Close |-> Value(file.lines[i].Close),
                  Pct_Change |-> Parse(file.lines[i].Pct_Change)]])]

\* Faulty variant: one attempt more than MAX_RETRY_ATTEMPTS
RetryLimit_plus_one == MAX_RETRY_ATTEMPTS + 1

\* range(1, MAX_RETRY_ATTEMPTS + 1): the last attempt
RetryLimit == MAX_RETRY_ATTEMPTS

\* Faulty variant: the ledger is stamped after every refresh, data or not
StampsLedger_always(update_needed, all_data) == update_needed

\* Faulty variant: the ledger is stamped whenever data is returned, served
\* from the files or downloaded
StampsLedger_served(update_needed, all_data) == DOMAIN all_data # {}

\* Line 289: whether the ledger is stamped
StampsLedger(update_needed, all_data) ==
    update_needed /\ DOMAIN all_data # {}

\* Lines 255-268 for one symbol: the frame loaded from its file and the file
\* afterwards; loaded is FALSE when the file is not used or reading it fails.
LoadSymbol(file, update_needed, outage) ==
    IF file.kind = "absent" \/ update_needed \/ file.kind = "garbage"
    THEN [loaded |-> FALSE, file |-> file, df |-> EmptyFrame]
    ELSE LET df == seg_read_csv(file)
         IN  IF "Pct_Change" \in df.columns
             THEN [loaded |-> TRUE, file |-> file, df |-> df]
             ELSE LET fixed == [columns |-> df.columns \cup {"Pct_Change"},
                                rows |-> WithPct(df.rows)]
                  IN  IF Attempt(outage, 1) = "unsaved"
                      THEN [loaded |-> FALSE, file |-> file, df |-> EmptyFrame]
                      ELSE [loaded |-> TRUE, file |-> seg_to_csv(fixed),
                            df |-> fixed]

\* Lines 271-287 for one symbol, from attempt n on: the number of provider
\* calls made, whether a frame was saved, the file afterwards, and whether
\* some attempt downloaded rows (got).
RECURSIVE Retry(_, _, _, _, _)
Retry(n, file, outage, symbol, period) ==
    LET kind == Attempt(outage, n)
        df == download_ticker_data(kind, symbol, period)
    IN  IF df.rows # <<>> /\ kind # "unsaved"
        THEN [calls |-> n, saved |-> TRUE, file |-> seg_to_csv(df), df |-> df,
              got |-> TRUE]
        ELSE IF n = RetryLimit
        THEN [calls |-> n, saved |-> FALSE, file |-> file, df |-> EmptyFrame,
              got |-> df.rows # <<>>]
        ELSE LET later == Retry(n + 1, file, outage, symbol, period)
             IN  [later EXCEPT !.got = @ \/ df.rows # <<>>]

\* Faulty variant: a symbol whose refresh fails is served from its old file
ProcessSymbol_fallback(file, update_needed, outage, symbol, period) ==
    LET l == LoadSymbol(file, update_needed, outage)
        old == LoadSymbol(file, FALSE, NoOutage)
        r == Retry(1, file, outage, symbol, period)
    IN  IF l.loaded
        THEN [calls |-> 0, have |-> TRUE, file |-> l.file, df |-> l.df,
              got |-> FALSE]
        ELSE IF ~r.saved /\ old.loaded
        THEN [calls |-> r.calls, have |-> TRUE, file |-> old.file,
              df |-> old.df, got |-> r.got]
        ELSE [calls |-> r.calls, have |-> r.saved, file |-> r.file,
              df |-> r.df, got |-> r.got]

\* The body of the loop of lines 250-287 for one symbol.
ProcessSymbol(file, update_needed, outage, symbol, period) ==
    LET l == LoadSymbol(file, update_needed, outage)
        r == Retry(1, file, outage, symbol, period)
    IN  IF l.loaded
        THEN [calls |-> 0, have |-> TRUE, file |-> l.file, df |-> l.df,
              got |-> FALSE]
        ELSE [calls |-> r.calls, have |-> r.saved, file |-> r.file,
              df |-> r.df, got |-> r.got]

NoSegCall == [op |-> "none", period |-> "1mo", update_needed |-> FALSE,
              result |-> <<>>, raised |-> FALSE, downloaded |-> {},
              calls |-> [s \in Range(symbols) |-> 0],
              fails |-> [s \in Range(symbols) |-> 0]]

SegIdle == seg.op = "none"

\* get_segmented_data as a whole: the ledger and the files afterwards, and
\* the record of the call.
get_segmented_data(ledger, files, t, period, outages, ledger_ok) ==
    LET update_needed == should_update_data(ledger, period, t)
        done == Table([s \in Range(symbols) |->
                         ProcessSymbol(files[s][period], update_needed,
                                       outages[s], s, period)])
        all_data == Table([s \in {x \in Range(symbols) : done[x].have} |->
                             done[s].df.rows])
        files_after == Table([s \in Range(symbols) |->
                                [files[s] EXCEPT ![period] = done[s].file]])
        call == [op |-> "get_segmented_data", period |-> period,
                 update_needed |-> update_needed, result |-> all_data,
                 raised |-> FALSE,
                 downloaded |-> {s \in Range(symbols) : done[s].got},
                 calls |-> [s \in Range(symbols) |-> done[s].calls],
                 fails |-> [s \in Range(symbols) |-> outages[s].fails]]
    IN  IF should_update_raises(ledger, period)
        THEN [ledger |-> ledger, files |-> files,
              call |-> [NoSegCall EXCEPT !.op = "get_segmented_data",
                                         !.period = period,
                                         !.raised = TRUE]]
        ELSE IF StampsLedger(update_needed, all_data)
        THEN IF ledger_ok
             THEN [ledger |-> update_cache_info(ledger, period, strftime(t)),
                   files |-> files_after, call |-> call]
             ELSE [ledger |-> ledger, files |-> files_after,
                   call |-> [call EXCEPT !.result = <<>>, !.raised = TRUE]]
        ELSE [ledger |-> ledger, files |-> files_after, call |-> call]

\* The attempt outcomes of data_processing: the provider raises or returns
\* nothing, or to_csv fails ("unsaved").
SegFailureKinds == {"raise", "empty", "unsaved"}

SegOutages ==
    {NoOutage} \cup [fails : {1, MAX_RETRY_ATTEMPTS}, kind : SegFailureKinds]

\* A symbol whose file is served consumes no outage, unless the file lacks
\* Pct_Change and is written again.
Consumes(ledger, files, t, period, s) ==
    \/ should_update_raises(ledger, period)
    \/ should_update_data(ledger, period, t)
    \/ files[s][period].kind # "csv"
    \/ "Pct_Change" \notin files[s][period].header

SegOutagesFor(ledger, files, t, period) ==
    IF should_update_raises(ledger, period)
    THEN {[s \in Range(symbols) |-> NoOutage]}
    ELSE {o \in [Range(symbols) -> SegOutages] :
            \A s \in Range(symbols) :
               ~Consumes(ledger, files, t, period, s) => o[s] = NoOutage}

LedgerOutcomes(ledger, files, t, period, outages) ==
    IF /\ ~should_update_raises(ledger, period)
       /\ should_update_data(ledger, period, t)
       /\ \E s \in Range(symbols) :
             outages[s].fails < MAX_RETRY_ATTEMPTS
    THEN BOOLEAN ELSE {TRUE}

GetSegmentedData ==
    /\ page = "/sector-growth"
    /\ SegIdle
    /\ \E period \in SegPeriods :
         \E outages \in SegOutagesFor(cache_info, csv_files, now, period) :
            \E ledger_ok \in
                  LedgerOutcomes(cache_info, csv_files, now, period, outages) :
               LET r == get_segmented_data(cache_info, csv_files, now, period,
                                           outages, ledger_ok)
               IN  /\ cache_info' = r.ledger
                   /\ csv_files' = r.files
                   /\ seg' = r.call
    /\ UNCHANGED <<page, threads, now, dm_vars>>

SegReturn ==
    /\ ~SegIdle
    /\ seg' = NoSegCall
    /\ UNCHANGED <<page, threads, now, dm_vars, cache_info, csv_files>>

\* What something other than this process leaves in the data directory: a
\* ledger that is no JSON or holds text that is no date, a symbol file that
\* is no table, and a symbol file of an older layout without Pct_Change.
LegacyCsv(symbol, period) ==
    seg_to_csv([columns |-> {"Date", "Close"},
                rows |-> Tuple([i \in DOMAIN TickerHistory(symbol, period) |->
                            [Date |-> TickerHistory(symbol, period)[i].Date,
                             Close |-> TickerHistory(symbol, period)[i].Close,
                             Pct_Change |-> NaN]])])

ExternalLedger ==
    /\ page = "/sector-growth"
    /\ SegIdle
    /\ \/ cache_info' = Garbage
       \/ \E period \in SegPeriods :
             cache_info' = update_cache_info(cache_info, period, Junk)
    /\ UNCHANGED <<page, threads, now, dm_vars, csv_files, seg>>

ExternalCsv ==
    /\ page = "/sector-growth"
    /\ SegIdle
    /\ \E s \in Range(symbols), period \in SegPeriods :
         \E f \in {Garbage, LegacyCsv(s, period)} :
            csv_files' = [csv_files EXCEPT ![s][period] = f]
    /\ UNCHANGED <<page, threads, now, dm_vars, cache_info, seg>>

-----------------------------------------------------------------------------
(* Concurrent requests.  The server (app.run_server, Flask's threaded      *)
(* development server) runs each callback in a thread of its own, and all  *)
(* threads use the one data_manager.  A thread in get_stock_data goes      *)
(* through the freshness check, the fetch, and the write of the cache      *)
(* file, which DataFrame.to_csv opens (truncating it) and then fills.      *)

Threads == {"t1", "t2"}

\* pc: "idle", "fetch" (after line 67), "save" (after line 86, before the
\* file is opened), "write" (file open, rows being written); frame is the
\* thread's combined_data.
NoThread == [pc |-> "idle", frame |-> None]

ThreadOutages == {NoOutage, [fails |-> 1, kind |-> "raise"]}

\* Lines 55-67: load the file if nothing is in memory, check the age.
CheckCache(t) ==
    /\ page = "/data"
    /\ threads[t].pc = "idle"
    /\ LET d1 == IF _data = None THEN _load_cache(cache_file) ELSE _data
       IN  /\ _data' = d1
           /\ threads' = [threads EXCEPT ![t].pc =
                             IF CacheCheck(d1, now) = "invalid"
                             THEN "fetch" ELSE "idle"]
    /\ UNCHANGED <<page, now, cache_file, dm, seg_vars>>

\* Lines 69-86: download every symbol, set _data.
FetchAll(t) ==
    /\ page = "/data"
    /\ threads[t].pc = "fetch"
    /\ \E request \in Requests, period \in DMPeriods :
         \E outages \in [1..Len(request) -> ThreadOutages] :
            LET all_stock_data == Fetch(request, period, outages).frames
                combined_data == Combined(all_stock_data, now)
            IN  IF all_stock_data # <<>>
                THEN /\ _data' = combined_data
                     /\ threads' = [threads EXCEPT
                                      ![t] = [pc |-> "save",
                                              frame |-> combined_data]]
                ELSE /\ _data' = _data
                     /\ threads' = [threads EXCEPT ![t] = NoThread]
    /\ UNCHANGED <<page, now, cache_file, dm, seg_vars>>

\* Line 102, first half: to_csv opens the cache file for writing, which
\* empties it (an empty file is one that read_csv cannot parse).
OpenCacheFile(t) ==
    /\ page = "/data"
    /\ threads[t].pc = "save"
    /\ cache_file' = Garbage
    /\ threads' = [threads EXCEPT ![t].pc = "write"]
    /\ UNCHANGED <<page, now, _data, dm, seg_vars>>

\* Line 102, second half: the rows are written and the file is closed.
WriteCacheFile(t) ==
    /\ page = "/data"
    /\ threads[t].pc = "write"
    /\ cache_file' = to_csv(threads[t].frame)
    /\ threads' = [threads EXCEPT ![t] = NoThread]
    /\ UNCHANGED <<page, now, _data, dm, seg_vars>>

\* clear_cache in a thread (the clear button), while another thread may be
\* anywhere in get_stock_data.
ThreadClearCache(t) ==
    /\ page = "/data"
    /\ threads[t].pc = "idle"
    /\ \E remove_ok \in BOOLEAN :
         LET r == clear_cache(_data, cache_file, remove_ok)
         IN  /\ _data' = r.data
             /\ cache_file' = r.file
    /\ UNCHANGED <<page, now, dm, seg_vars, threads>>

NextThreads ==
    \E t \in Threads :
       \/ CheckCache(t)
       \/ FetchAll(t)
       \/ OpenCacheFile(t)
       \/ WriteCacheFile(t)
       \/ ThreadClearCache(t)

Tick ==
    /\ Idle /\ SegIdle
    /\ now < MaxNow
    /\ now' = now + 1
    /\ UNCHANGED <<page, threads, dm_vars, seg_vars>>

-----------------------------------------------------------------------------

Init ==
    /\ page \in {"/data", "/sector-growth"}
    /\ now = 0
    /\ _data = None
    /\ cache_file = Absent
    /\ dm = NoCall
    /\ cache_info = Absent
    /\ csv_files = [s \in Range(symbols) |-> [p \in SegPeriods |-> Absent]]
    /\ seg = NoSegCall
    /\ threads = [t \in Threads |-> NoThread]

NextDM == GetStockData \/ ClearCache \/ Return \/ ExternalWrite \/ Restart

NextSeg == GetSegmentedData \/ SegReturn \/ ExternalLedger \/ ExternalCsv

Next == NextDM \/ NextSeg \/ Tick

Spec == Init /\ [][Next]_vars

\* The session of one page only.
InitDM == Init /\ page = "/data"

InitSeg == Init /\ page = "/sector-growth"

SpecDM == InitDM /\ [][NextDM \/ Tick]_vars

SpecSeg == InitSeg /\ [][NextSeg \/ Tick]_vars

SpecThreads == InitDM /\ [][NextThreads \/ Tick]_vars

-----------------------------------------------------------------------------
(* should_update_data on its own: the ledger and the clock are drawn from   *)
(* bounded sets and the function is applied to every period.               *)

AllPeriods == {"1mo", "3mo", "6mo", "1y", "2y", "5y", "max"}

MaxDays == 32

FreshLedgers ==
    {Absent, Garbage}
        \cup {Json([p \in {period} |-> v]) :
                 period \in AllPeriods,
                 v \in {Junk} \cup {strftime(timedelta(d)) : d \in 0..1}}

ShouldUpdateData ==
    /\ SegIdle
    /\ \E period \in AllPeriods :
         seg' = [NoSegCall EXCEPT
                   !.op = "should_update_data",
                   !.period = period,
                   !.raised = should_update_raises(cache_info, period),
                   !.update_needed =
                       IF should_update_raises(cache_info, period) THEN FALSE
                       ELSE should_update_data(cache_info, period, now)]
    /\ UNCHANGED <<page, threads, now, dm_vars, cache_info, csv_files>>

InitFresh ==
    /\ page = "/sector-growth"
    /\ now \in 0..timedelta(MaxDays)
    /\ _data = None
    /\ cache_file = Absent
    /\ dm = NoCall
    /\ cache_info \in FreshLedgers
    /\ csv_files = [s \in Range(symbols) |-> [p \in SegPeriods |-> Absent]]
    /\ seg = NoSegCall
    /\ threads = [t \in Threads |-> NoThread]

SpecFresh == InitFresh /\ [][ShouldUpdateData]_vars

-----------------------------------------------------------------------------
(* One session that opens both pages: the navigation bar leads from one    *)
(* page to the other, and what each page's callback returned stays on      *)
(* display.                                                                *)

Navigate ==
    /\ page' = IF page = "/data" THEN "/sector-growth" ELSE "/data"
    /\ UNCHANGED <<now, dm_vars, seg_vars, threads>>

SpecPages == Init /\ [][GetStockData \/ GetSegmentedData \/ Navigate]_vars

-----------------------------------------------------------------------------
(* pages/data.py: the callback of the data-management page *)

\* Every symbol of the universe, sector by sector.
get_all_symbols == symbols

\* What fired the callback: nothing (the page was opened), one of the two
\* buttons, or the period dropdown.
Triggers == {"initial", "clear-cache-button", "refresh-data-button",
             "data-period-dropdown"}

\* create_data_summary reads the snapshot and loads it from the file first
\* when there is none in memory.
create_data_summary(d0, file) == IF d0 = None THEN _load_cache(file) ELSE d0

\* The snapshot and the file as the callback leaves them before it calls
\* get_stock_data.
BeforeFetch(d0, file, trigger, remove_ok) ==
    IF trigger = "initial" THEN [data |-> _load_cache(file), file |-> file]
    ELSE IF trigger = "data-period-dropdown" THEN [data |-> d0, file |-> file]
    ELSE clear_cache(d0, file, remove_ok)

CallsGetStockData(trigger, b) ==
    \/ trigger \in {"refresh-data-button", "data-period-dropdown"}
    \/ trigger = "initial" /\ (b.data = None \/ b.data.rows = <<>>)

handle_data_controls(d0, file, t, trigger, period, remove_ok, outages, save_ok) ==
    LET b == BeforeFetch(d0, file, trigger, remove_ok)
        r == IF CallsGetStockData(trigger, b)
             THEN get_stock_data(b.data, b.file, t, get_all_symbols, period,
                                 outages, save_ok)
             ELSE [data |-> b.data, file |-> b.file, call |-> NoCall]
    IN  [data |-> IF trigger = "clear-cache-button" \/ r.call.raised
                  THEN r.data ELSE create_data_summary(r.data, r.file),
         file |-> r.file,
         call |-> [r.call EXCEPT !.op = trigger]]

\* os.remove is reached only by the two buttons and only when the file
\* exists.
RemoveOutcomes(file, trigger) ==
    IF trigger \in {"clear-cache-button", "refresh-data-button"}
       /\ file.kind # "absent"
    THEN BOOLEAN ELSE {TRUE}

HandleDataControls ==
    /\ page = "/data"
    /\ Idle
    /\ \E trigger \in Triggers, period \in DMPeriods :
         \E remove_ok \in RemoveOutcomes(cache_file, trigger) :
            LET b == BeforeFetch(_data, cache_file, trigger, remove_ok)
                called == CallsGetStockData(trigger, b)
            IN  \E outages \in IF called
                               THEN OutagesFor(b.data, b.file, now,
                                               get_all_symbols)
                               ELSE {<<>>} :
                   \E save_ok \in IF called
                                  THEN SaveOutcomes(b.data, b.file, now,
                                                    outages)
                                  ELSE {TRUE} :
                      LET r == handle_data_controls(_data, cache_file, now,
                                                    trigger, period,
                                                    remove_ok, outages,
                                                    save_ok)
                      IN  /\ _data' = r.data
                          /\ cache_file' = r.file
                          /\ dm' = r.call
    /\ UNCHANGED <<page, threads, now, seg_vars>>

\* The data-management page on its own.
SpecDataPage == InitDM /\ [][HandleDataControls \/ Return \/ Tick]_vars

-----------------------------------------------------------------------------
(* Claims *)

Min(a, b) == IF a < b THEN a ELSE b

SymbolsOf(rows) == {rows[i].Symbol : i \in DOMAIN rows}

\* C1: get_stock_data never raises to its caller: whatever fails inside,
\* the call returns a mapping whose keys are requested symbols.
C1_NeverRaises ==
    dm.op = "get_stock_data" =>
        /\ ~dm.raised
        /\ DOMAIN dm.result \subseteq Range(dm.symbols)

\* An exception inside the call (the age of a snapshot whose timestamps
\* carry a UTC offset) ended as an empty mapping.
C1_Witness ==
    /\ dm.op = "get_stock_data"
    /\ dm.check = "raise"
    /\ dm.symbols # <<>>
    /\ dm.result = <<>>
    /\ ~dm.raised

\* C2: get_segmented_data never raises to its caller, whatever the state of
\* the ledger and of the symbol files.
C2_SegNeverRaises == seg.op = "get_segmented_data" => ~seg.raised

\* C3: for a request that names a symbol, the provider is called if and only
\* if the snapshot (in memory, else loaded from the file) is absent, empty,
\* without fetch timestamp, or at least 24 hours old, whatever the period.
\* (A snapshot whose timestamp cannot be compared with now is excluded.)
C3_Snapshot == IF _data = None THEN _load_cache(cache_file) ELSE _data

C3_Stale ==
    \/ C3_Snapshot = None
    \/ C3_Snapshot.rows = <<>>
    \/ "timestamp" \notin C3_Snapshot.columns
    \/ C3_Snapshot.rows[1].timestamp = NaT
    \/ now - C3_Snapshot.rows[1].timestamp[1] >= TicksPerDay

C3_StaleIffFetched ==
    [][(/\ dm.op = "none"
        /\ dm'.op = "get_stock_data"
        /\ dm'.check # "raise"
        /\ dm'.symbols # <<>>)
       => /\ C3_Stale => \A i \in DOMAIN dm'.calls : dm'.calls[i] >= 1
          /\ ~C3_Stale => \A i \in DOMAIN dm'.calls : dm'.calls[i] = 0]_vars

\* A snapshot of exactly 24 hours was refetched.
C3_Witness ==
    /\ dm.op = "get_stock_data"
    /\ dm.symbols # <<>>
    /\ dm.age = TicksPerDay
    /\ \A i \in DOMAIN dm.calls : dm.calls[i] >= 1

\* C4: should_update_data is true when the ledger has no entry for the
\* period, and otherwise exactly when the time since the entry (midnight of
\* its date) exceeds 1 day for "1mo", "3mo", "6mo", "1y", 7 days for "5y",
\* 30 days for "max", 1 day for any other period.
C4_CadenceDays(period) ==
    CASE period \in {"1mo", "3mo", "6mo", "1y"} -> 1
      [] period = "5y" -> 7
      [] period = "max" -> 30
      [] OTHER -> 1

C4_HasEntry(period) ==
    cache_info.kind = "json" /\ period \in DOMAIN cache_info.entries

C4_Elapsed(period) == now - cache_info.entries[period].day * TicksPerDay

C4_ShouldUpdate ==
    (seg.op = "should_update_data" /\ ~seg.raised) =>
        seg.update_needed =
            (\/ ~C4_HasEntry(seg.period)
             \/ C4_Elapsed(seg.period) > C4_CadenceDays(seg.period) * TicksPerDay)

\* "5y" asked exactly 7 days after its entry: no update yet.
C4_Witness ==
    /\ seg.op = "should_update_data"
    /\ seg.period = "5y"
    /\ C4_HasEntry("5y")
    /\ ~seg.raised
    /\ C4_Elapsed("5y") = 7 * TicksPerDay
    /\ ~seg.update_needed

\* C5: a call that finds the cache stale asks the provider at least once for
\* every requested symbol (get_stock_data: every position of the request;
\* get_segmented_data: every symbol of the sectors).
C5_StaleRefetchesAll ==
    /\ (dm.op = "get_stock_data" /\ dm.check = "invalid") =>
           \A i \in DOMAIN dm.symbols : dm.calls[i] >= 1
    /\ (seg.op = "get_segmented_data" /\ seg.update_needed) =>
           \A s \in Range(symbols) : seg.calls[s] >= 1

\* A snapshot older than 24 hours, two symbols asked, the first one failing.
C5_Witness ==
    /\ dm.op = "get_stock_data"
    /\ dm.age >= TicksPerDay
    /\ Len(dm.symbols) = 2
    /\ dm.fails[1] > 0
    /\ dm.calls = <<1, 1>>

\* C6: after a get_stock_data call served from a fresh snapshot, the same
\* request made again at once returns the same series and neither of the
\* two calls asks the provider.
C6_Again(period, outage, save_ok) ==
    get_stock_data(_data, cache_file, now, dm.symbols, period,
                   [i \in DOMAIN dm.symbols |-> outage], save_ok).call

C6_IdempotentRead ==
    (dm.op = "get_stock_data" /\ dm.check = "valid") =>
        /\ dm.calls = NoCalls(dm.symbols)
        /\ \A period \in DMPeriods, save_ok \in BOOLEAN :
              \A outage \in {NoOutage,
                              [fails |-> MAX_RETRY_ATTEMPTS, kind |-> "raise"]} :
                 /\ C6_Again(period, outage, save_ok).result = dm.result
                 /\ C6_Again(period, outage, save_ok).calls
                        = NoCalls(dm.symbols)

\* A call served two symbols from a snapshot that is not brand new.
C6_Witness ==
    /\ dm.op = "get_stock_data"
    /\ dm.check = "valid"
    /\ dm.age > 0
    /\ Cardinality(DOMAIN dm.result) = 2

\* C7: in a refresh in which at least one symbol is fetched, the keys of the
\* result are exactly the symbols fetched, and so are the symbols of the
\* snapshot in memory and of the file the call has written.
C7_Fetched == {dm.symbols[i] : i \in {j \in DOMAIN dm.symbols : dm.fails[j] = 0}}

C7_PartialFailure ==
    (dm.op = "get_stock_data" /\ dm.check = "invalid" /\ C7_Fetched # {}) =>
        /\ DOMAIN dm.result = C7_Fetched
        /\ SymbolsOf(_data.rows) = C7_Fetched
        /\ dm.saved =>
              /\ cache_file.kind = "csv"
              /\ SymbolsOf(read_csv(cache_file).rows) = C7_Fetched

\* Two symbols asked, one fetched, one failed, the snapshot written.
C7_Witness ==
    /\ dm.op = "get_stock_data"
    /\ dm.check = "invalid"
    /\ Len(dm.symbols) = 2
    /\ dm.symbols[1] # dm.symbols[2]
    /\ dm.fails[1] > 0
    /\ dm.fails[2] = 0
    /\ dm.saved
    /\ DOMAIN dm.result = {dm.symbols[2]}

\* C8: in a refresh, a symbol whose first attempt fails and whose second or
\* third attempt would succeed is in the result.
C8_RetriedSymbolPresent ==
    (dm.op = "get_stock_data" /\ dm.check = "invalid") =>
        \A i \in DOMAIN dm.symbols :
           (dm.fails[i] >= 1 /\ dm.fails[i] < MAX_RETRY_ATTEMPTS) =>
               dm.symbols[i] \in DOMAIN dm.result

\* C9: get_segmented_data asks the provider at most MAX_RETRY_ATTEMPTS times
\* for a symbol, stops at the first attempt that returns rows and is saved,
\* and leaves out a symbol whose attempts all fail while the other symbols
\* are still served.
C9_BoundedRetry ==
    seg.op = "get_segmented_data" =>
        \A s \in Range(symbols) :
           /\ seg.calls[s] <= MAX_RETRY_ATTEMPTS
           /\ seg.calls[s] > 0 =>
                 seg.calls[s] = Min(seg.fails[s] + 1, MAX_RETRY_ATTEMPTS)
           /\ (~seg.raised /\ seg.calls[s] > 0) =>
                 (s \in DOMAIN seg.result <=>
                      seg.fails[s] < MAX_RETRY_ATTEMPTS)

\* One symbol failed three times and is left out; the other one, saved at
\* its second attempt, is served.
C9_Witness ==
    /\ seg.op = "get_segmented_data"
    /\ ~seg.raised
    /\ seg.calls["COP"] = MAX_RETRY_ATTEMPTS
    /\ seg.calls["NEE"] = 2
    /\ DOMAIN seg.result = {"NEE"}

\* C10: a refresh in which every symbol fails returns an empty mapping and
\* raises nothing, in get_stock_data and in get_segmented_data, and the
\* latter leaves the ledger as it was.
C10_AllFail ==
    [][/\ (/\ dm.op = "none"
           /\ dm'.op = "get_stock_data"
           /\ dm'.check = "invalid"
           /\ \A i \in DOMAIN dm'.symbols : dm'.fails[i] >= 1)
          => (dm'.result = <<>> /\ ~dm'.raised)
       /\ (/\ seg.op = "none"
           /\ seg'.op = "get_segmented_data"
           /\ seg'.update_needed
           /\ \A s \in Range(symbols) : seg'.fails[s] = MAX_RETRY_ATTEMPTS)
          => /\ seg'.result = <<>>
             /\ ~seg'.raised
             /\ cache_info' = cache_info]_vars

\* A refresh of a period that has a ledger entry, every symbol failing.
C10_Witness ==
    /\ seg.op = "get_segmented_data"
    /\ seg.update_needed
    /\ \A s \in Range(symbols) : seg.calls[s] = MAX_RETRY_ATTEMPTS
    /\ seg.result = <<>>
    /\ cache_info.kind = "json"
    /\ "1mo" \in DOMAIN cache_info.entries

\* The provider is down for every position of a request.
AllDown(request) ==
    [i \in DOMAIN request |-> [fails |-> MAX_RETRY_ATTEMPTS, kind |-> "raise"]]

\* C11: after any clear_cache call, one whose os.remove fails included, the
\* next get_stock_data call asks the provider for every requested symbol and
\* returns no row of the previous snapshot (with the provider down for every
\* symbol it returns nothing).
C11_ClearedThenFetched ==
    dm.op = "clear_cache" =>
        \A request \in Requests, period \in DMPeriods :
           LET next == get_stock_data(_data, cache_file, now, request, period,
                                      AllDown(request), TRUE).call
           IN  /\ \A i \in DOMAIN request : next.calls[i] >= 1
               /\ next.result = <<>>

\* C12: clear_cache raises nothing and leaves no file and no in-memory
\* snapshot, and a second call in a row leaves that same state.
C12_ClearIdempotent ==
    dm.op = "clear_cache" =>
        /\ ~dm.raised
        /\ _data = None
        /\ cache_file = Absent
        /\ \A remove_ok \in BOOLEAN :
              clear_cache(_data, cache_file, remove_ok)
                 = [data |-> None, file |-> Absent]

\* The outages of a recorded call: a position that failed, failed by raising.
OutagesOf(fails) ==
    [i \in DOMAIN fails |->
       IF fails[i] = 0 THEN NoOutage ELSE [fails |-> fails[i], kind |-> "raise"]]

\* C13: a get_stock_data call that has fetched rows and fails to write the
\* cache file returns the mapping, and keeps the in-memory snapshot, that
\* the same call returns and keeps when the write succeeds.
C13_WriteFailureNonFatal ==
    [][(/\ dm.op = "none"
        /\ dm'.op = "get_stock_data"
        /\ dm'.check = "invalid"
        /\ \E i \in DOMAIN dm'.fails : dm'.fails[i] = 0
        /\ ~dm'.saved)
       => LET written == get_stock_data(_data, cache_file, now, dm'.symbols,
                                        dm'.period, OutagesOf(dm'.fails), TRUE)
          IN  /\ written.call.saved
              /\ dm'.result = written.call.result
              /\ _data' = written.data
              /\ cache_file' = cache_file]_vars

\* Two symbols asked, one fetched, the write of the cache file failed and
\* the fetched symbol is returned.
C13_Witness ==
    /\ dm.op = "get_stock_data"
    /\ dm.check = "invalid"
    /\ dm.fails = <<0, MAX_RETRY_ATTEMPTS>>
    /\ ~dm.saved
    /\ DOMAIN dm.result = {dm.symbols[1]}
    /\ cache_file # to_csv(_data)

\* C14: in get_segmented_data a symbol whose download returned rows is in the
\* returned mapping, whether or not its file could be written.
C14_UnsavedStillReturned ==
    (seg.op = "get_segmented_data" /\ ~seg.raised) =>
        seg.downloaded \subseteq DOMAIN seg.result

\* C15: a cache file that cannot be parsed counts as no cache: _load_cache
\* returns None, and the get_stock_data call that finds it (nothing in
\* memory) raises nothing and asks the provider for every requested symbol;
\* in get_segmented_data a symbol whose file cannot be read is asked of the
\* provider.
C15_CorruptIsAbsent ==
    [][/\ (/\ dm.op = "none"
           /\ dm'.op = "get_stock_data"
           /\ _data = None
           /\ cache_file.kind = "garbage")
          => /\ _load_cache(cache_file) = None
             /\ ~dm'.raised
             /\ dm'.check = "invalid"
             /\ \A i \in DOMAIN dm'.symbols : dm'.calls[i] >= 1
       /\ (/\ seg.op = "none"
           /\ seg'.op = "get_segmented_data"
           /\ ~should_update_raises(cache_info, seg'.period))
          => \A s \in Range(symbols) :
                csv_files[s][seg'.period].kind = "garbage"
                   => seg'.calls[s] >= 1]_vars

\* get_stock_data found an unreadable file, asked the provider for both
\* symbols and got nothing: the file is still as it was.
C15_Witness ==
    /\ dm.op = "get_stock_data"
    /\ _data = None
    /\ cache_file.kind = "garbage"
    /\ dm.check = "invalid"
    /\ dm.calls = <<1, 1>>

\* The percent changes of a column of prices on scale k (1: fractional,
\* 100: percentage), in units of 1/10000.
Scales == {1, 100}

ChangesOnScale(prices, k) ==
    [i \in DOMAIN prices |->
       IF i = 1 THEN NaN
       ELSE <<(((prices[i] - prices[i - 1]) * 10000) \div prices[i - 1]) * k>>]

\* C16: in every series returned by get_stock_data and by
\* get_segmented_data the first percent change is absent and each later one
\* is the change from the previous row of the series, all of them on one
\* and the same scale (fractional or percentage).
C16_PercentChange ==
    \E k \in Scales :
       /\ \A s \in DOMAIN dm.result :
             \A i \in DOMAIN dm.result[s] :
                dm.result[s][i].Pct_Change
                   = ChangesOnScale([j \in DOMAIN dm.result[s] |->
                                       dm.result[s][j].AdjClose], k)[i]
       /\ \A s \in DOMAIN seg.result :
             \A i \in DOMAIN seg.result[s] :
                seg.result[s][i].Pct_Change
                   = ChangesOnScale([j \in DOMAIN seg.result[s] |->
                                       seg.result[s][j].Close], k)[i]

\* The snapshot with every stored Pct_Change replaced by v.
WithStoredPct(d, v) ==
    [d EXCEPT !.rows = Tuple([i \in DOMAIN d.rows |->
                                [d.rows[i] EXCEPT !.Pct_Change = v]])]

StoredPcts == {NaN, <<0>>, <<777>>}

\* C17: a fresh snapshot and the same snapshot with other stored Pct_Change
\* values, in memory or in the cache file, give the same get_stock_data
\* result for every request.
C17_PctNotTrusted ==
    (dm.op = "get_stock_data" /\ dm.check = "valid") =>
        \A v \in StoredPcts, request \in Requests :
           LET served(d0, file) ==
                   get_stock_data(d0, file, now, request, "1y",
                                  AllDown(request), TRUE).call
               other == WithStoredPct(_data, v)
           IN  /\ served(other, cache_file).check = "valid"
               /\ served(other, cache_file).result
                     = served(_data, cache_file).result
               /\ served(None, to_csv(other)).result
                     = served(None, to_csv(_data)).result
               /\ request = dm.symbols =>
                     served(other, cache_file).result = dm.result

\* A fresh snapshot served a series with a percent change in it.
C17_Witness ==
    /\ dm.op = "get_stock_data"
    /\ dm.check = "valid"
    /\ \E s \in DOMAIN dm.result :
          /\ Len(dm.result[s]) >= 2
          /\ dm.result[s][2].Pct_Change # NaN

\* C18: every series returned by get_stock_data has strictly increasing
\* dates (so no date twice), for any request list, one that repeats a symbol
\* included; the provider returns rows in strictly increasing date order.
C18_DatesIncreasing ==
    dm.op = "get_stock_data" =>
        \A s \in DOMAIN dm.result :
           \A i, j \in DOMAIN dm.result[s] :
              i < j => dm.result[s][i].Date < dm.result[s][j].Date

\* A snapshot written by this process and the snapshot in memory.
C19_Reloaded == _load_cache(cache_file)

C20_OneWriter ==
    Cardinality({t \in Threads : threads[t].pc = "write"}) <= 1

\* The ledger entry of a period: Absent when there is none.
LedgerEntry(ledger, period) ==
    IF ledger.kind = "json" /\ period \in DOMAIN ledger.entries
    THEN ledger.entries[period] ELSE [text |-> "none", day |-> 0]

\* C21: a get_segmented_data call changes the ledger only when a refresh
\* happened in it (should_update_data was true and at least one symbol was
\* downloaded and returned), and then only the entry of its period; a call
\* served from the files or a refresh in which every symbol failed leaves
\* the ledger as it was.
C21_LedgerFrame ==
    [][(seg.op = "none" /\ seg'.op = "get_segmented_data")
       => /\ cache_info' # cache_info
               => /\ seg'.update_needed
                  /\ seg'.downloaded # {}
                  /\ DOMAIN seg'.result # {}
                  /\ LedgerEntry(cache_info', seg'.period) = strftime(now)
                  /\ \A p \in DOMAIN get_cache_info(cache_info) \ {seg'.period} :
                        LedgerEntry(cache_info', p) = LedgerEntry(cache_info, p)
          /\ ~seg'.update_needed => cache_info' = cache_info
          /\ (\A s \in Range(symbols) : seg'.fails[s] = MAX_RETRY_ATTEMPTS)
                => cache_info' = cache_info]_vars

\* A call served every symbol from its file one day after the refresh that
\* stamped the ledger: the entry still carries the date of the refresh.
C21_Witness ==
    /\ seg.op = "get_segmented_data"
    /\ ~seg.update_needed
    /\ ~seg.raised
    /\ DOMAIN seg.result = Range(symbols)
    /\ \A s \in Range(symbols) : seg.calls[s] = 0
    /\ LedgerEntry(cache_info, seg.period).text = "date"
    /\ LedgerEntry(cache_info, seg.period) # strftime(now)

\* The (symbol, date, adjusted close) of the rows of a frame, in order.
Keys(rows) ==
    [i \in DOMAIN rows |-> <<rows[i].Symbol, rows[i].Date, rows[i].AdjClose>>]

\* What the provider returned in a refresh, position by position.
RECURSIVE Delivered(_, _, _)
Delivered(request, period, fails) ==
    IF request = <<>> THEN <<>>
    ELSE (IF Head(fails) = 0
          THEN [i \in DOMAIN Download(Head(request), period) |->
                  <<Head(request), Download(Head(request), period)[i].Date,
                    Download(Head(request), period)[i].AdjClose>>]
          ELSE <<>>)
         \o Delivered(Tail(request), period, Tail(fails))

C22_Refreshed ==
    /\ dm.op = "get_stock_data"
    /\ dm.check = "invalid"
    /\ \E i \in DOMAIN dm.fails : dm.fails[i] = 0

C23_RefreshForces ==
    [][Idle =>
        /\ dm'.op = "refresh-data-button"
              => /\ Len(dm'.calls) = Len(get_all_symbols)
                 /\ \A i \in DOMAIN dm'.calls : dm'.calls[i] >= 1
        /\ (dm'.op = "data-period-dropdown"
            /\ ~Refetches(_data, cache_file, now))
              => /\ \A i \in DOMAIN dm'.calls : dm'.calls[i] = 0
                 /\ cache_file' = cache_file
                 /\ _data' = create_data_summary(_data, cache_file)]_vars

\* The provider answers every position of the request.
AllUp(request) == [i \in DOMAIN request |-> NoOutage]

\* The snapshot a call sees: the one in memory, else the one of the file.
C24_Snapshot == IF _data = None THEN _load_cache(cache_file) ELSE _data

C24_Call(request, period, outages) ==
    get_stock_data(_data, cache_file, now, request, period, outages, TRUE).call

\* C24: with a fresh snapshot the result of get_stock_data does not depend
\* on the period: for any symbol list and any two periods the two calls
\* return the same series, which are the rows of the snapshot however many
\* rows either period covers, and neither call asks the provider.
C24_PeriodIrrelevant ==
    CacheCheck(C24_Snapshot, now) = "valid" =>
        \A request \in Requests :
           LET calls == {C24_Call(request, P, outages) :
                           P \in DMPeriods,
                           outages \in {AllUp(request), AllDown(request)}}
           IN  /\ Cardinality({c.result : c \in calls}) = 1
               /\ \A c \in calls :
                     /\ c.check = "valid"
                     /\ c.calls = NoCalls(request)
                     /\ \A s \in DOMAIN c.result :
                           Len(c.result[s])
                              = Len(SelectRows(C24_Snapshot.rows, s))

\* A call has just been served from a fresh snapshot that was fetched under
\* the shorter period: a call for the longer period would be served the
\* same rows.
C24_Witness ==
    /\ dm.op = "get_stock_data"
    /\ dm.check = "valid"
    /\ DOMAIN dm.result # {}
    /\ \A s \in DOMAIN dm.result : Len(dm.result[s]) = PeriodRows("1mo")
    /\ C24_Call(dm.symbols, "1y", AllUp(dm.symbols)).result = dm.result
    /\ PeriodRows("1y") > PeriodRows("1mo")

\* C25: a get_stock_data call served from a fresh snapshot returns series
\* for exactly the requested symbols that have rows in the snapshot, each
\* series holding that symbol's rows and no others; a requested symbol
\* without rows is left out and the provider is not called for any symbol.
C25_ExactlyCached ==
    (dm.op = "get_stock_data" /\ dm.check = "valid") =>
        /\ DOMAIN dm.result = Range(dm.symbols) \cap SymbolsOf(_data.rows)
        /\ dm.calls = NoCalls(dm.symbols)
        /\ \A s \in DOMAIN dm.result :
              /\ \A i \in DOMAIN dm.result[s] : dm.result[s][i].Symbol = s
              /\ Len(dm.result[s])
                    = Cardinality({i \in DOMAIN _data.rows :
                                     _data.rows[i].Symbol = s})

\* Two symbols were asked of a fresh snapshot that holds one of them.
C25_Witness ==
    /\ dm.op = "get_stock_data"
    /\ dm.check = "valid"
    /\ Range(dm.symbols) = Symbols
    /\ Cardinality(SymbolsOf(_data.rows)) = 1
    /\ DOMAIN dm.result = SymbolsOf(_data.rows)
    /\ dm.calls = NoCalls(dm.symbols)

\* A get_stock_data step that is a refresh in which the provider failed for
\* every requested symbol.
C26_AllFailed ==
    /\ dm.op = "none"
    /\ dm'.op = "get_stock_data"
    /\ dm'.check = "invalid"
    /\ \A i \in DOMAIN dm'.fails : dm'.fails[i] > 0

\* The call that follows such a refresh at once asks the provider again.
C26_Retried ==
    LET next == get_stock_data(_data', cache_file', now, dm'.symbols, "1y",
                               AllDown(dm'.symbols), TRUE).call
    IN  /\ next.check = "invalid"
        /\ \A i \in DOMAIN next.calls : next.calls[i] >= 1

\* C26 as stated: a refresh in which every symbol fails leaves the cache
\* file and the snapshot in memory as they were, returns no stale row, and
\* the next call attempts the refresh again.
C26_NothingChanges ==
    [][C26_AllFailed
       => /\ cache_file' = cache_file
          /\ _data' = _data
          /\ dm'.result = <<>>
          /\ C26_Retried]_vars

\* C26 amended: the file is as it was, and so is the snapshot in memory
\* when there was one; when there was none, the call has loaded the file
\* into memory (None if the file is absent or unreadable) and it stays
\* there.  No stale row is returned and the next call refreshes again.
C26_OnlyLoads ==
    [][C26_AllFailed
       => /\ cache_file' = cache_file
          /\ _data' = IF _data = None THEN _load_cache(cache_file) ELSE _data
          /\ dm'.result = <<>>
          /\ \A i \in DOMAIN dm'.calls : dm'.calls[i] = 1
          /\ C26_Retried]_vars

\* A refresh over a stale snapshot failed for both symbols asked: the stale
\* rows are still in memory and in the file, and none was returned.
C26_Witness ==
    /\ dm.op = "get_stock_data"
    /\ dm.check = "invalid"
    /\ dm.age >= TicksPerDay
    /\ Len(dm.symbols) = 2
    /\ \A i \in DOMAIN dm.fails : dm.fails[i] > 0
    /\ dm.result = <<>>
    /\ _data # None
    /\ SymbolsOf(_data.rows) \cap Range(dm.symbols) # {}
    /\ _load_cache(cache_file) = _data

\* What a call with the provider up makes of the snapshot in memory when the
\* cache file holds `file`: its record and the snapshot afterwards.
C27_Next(file, request) ==
    [get_stock_data(_data, file, now, request, "1y", AllUp(request), TRUE)
        EXCEPT !.file = Absent]

\* C27: once a snapshot is in memory the cache file is not read by
\* get_stock_data: whatever the file holds, a call returns the same result,
\* keeps the same snapshot and makes the same provider calls; while the
\* snapshot is younger than 24 hours that is no provider call, and this
\* also after a fetch whose save failed.
C27_MemoryOnly ==
    _data # None =>
        \A request \in Requests :
           LET seen == {C27_Next(F, request) :
                          F \in ForeignFiles \cup {Absent, cache_file}}
           IN  /\ Cardinality(seen) = 1
               /\ \A next \in seen :
                     /\ CacheCheck(_data, now) = "valid"
                           => next.call.calls = NoCalls(request)
                     /\ (/\ dm.op = "get_stock_data"
                         /\ dm.check = "invalid"
                         /\ DOMAIN dm.result # {})
                           => /\ next.call.check = "valid"
                              /\ next.call.calls = NoCalls(request)
                              /\ request = dm.symbols
                                    => next.call.result = dm.result

\* A fetch has just replaced the snapshot in memory and its save failed: the
\* file still holds something else.
C27_Witness ==
    /\ dm.op = "get_stock_data"
    /\ dm.check = "invalid"
    /\ DOMAIN dm.result # {}
    /\ ~dm.saved
    /\ _data # None
    /\ _load_cache(cache_file) # _data
    /\ C27_Next(cache_file, dm.symbols).call.result = dm.result

\* A get_segmented_data step that is a refresh (the ledger entry is absent
\* or stale).
C28_Refresh ==
    /\ seg.op = "none"
    /\ seg'.op = "get_segmented_data"
    /\ seg'.update_needed

\* The symbols whose three attempts failed in the refresh, and the others.
C28_Failed == {s \in Range(symbols) : seg'.fails[s] = MAX_RETRY_ATTEMPTS}

C28_Succeeded == Range(symbols) \ C28_Failed

\* The call that follows the refresh at once, the provider down for every
\* symbol.
C28_Next ==
    get_segmented_data(cache_info', csv_files', now, seg'.period,
                       [s \in Range(symbols) |->
                          [fails |-> MAX_RETRY_ATTEMPTS, kind |-> "raise"]],
                       TRUE).call

\* The old file of a failed symbol is left as it was and is not in the
\* result of the refresh; once the ledger is stamped the next call serves it
\* without a provider call.
C28_OldFile(s) ==
    /\ seg'.calls[s] = MAX_RETRY_ATTEMPTS
    /\ s \notin DOMAIN seg'.result
    /\ csv_files'[s][seg'.period] = csv_files[s][seg'.period]

C28_ServedNext(s) ==
    csv_files[s][seg'.period].kind = "csv"
       => /\ ~C28_Next.update_needed
          /\ C28_Next.calls[s] = 0
          /\ s \in DOMAIN C28_Next.result
          /\ Len(C28_Next.result[s]) = Len(csv_files[s][seg'.period].lines)

C29_FreshServesFiles ==
    [][(/\ seg.op = "none"
        /\ seg'.op = "get_segmented_data"
        /\ ~seg'.raised
        /\ ~seg'.update_needed)
       => /\ cache_info' = cache_info
          /\ \A s \in Range(symbols) :
                IF csv_files[s][seg'.period].kind = "csv"
                THEN /\ seg'.calls[s] = 0
                     /\ s \in DOMAIN seg'.result
                ELSE seg'.calls[s]
                        = Min(seg'.fails[s] + 1, MAX_RETRY_ATTEMPTS)]_vars

\* The periods refreshed daily.
C30_Daily == {"1mo", "3mo", "6mo", "1y"}

\* Midnight at the start of day d.
C30_Midnight(d) == d * TicksPerDay

C30_Today == now \div TicksPerDay

\* A ledger with the given entry for period p, asked at instant t.
C30_Due(entry, p, t) ==
    should_update_data(update_cache_info(Absent, p, entry), p, t)

\* C30: the ledger stores the date only, so staleness counts from midnight
\* of the day of the refresh: after a refresh at any instant of day D,
\* should_update_data of a daily period is false at every instant up to and
\* including 00:00 of D+1 and true at every later one; hence the refresh
\* that stamps the ledger finds no entry or one of an earlier day, and a
\* period is refreshed successfully at most once per calendar day.
C30_OncePerDay ==
    [][(/\ seg.op = "none"
        /\ seg'.op = "get_segmented_data"
        /\ cache_info' # cache_info)
       => /\ LedgerEntry(cache_info', seg'.period)
                = [text |-> "date", day |-> C30_Today]
          /\ LedgerEntry(cache_info, seg'.period).text = "date"
                => LedgerEntry(cache_info, seg'.period).day < C30_Today
          /\ \A t \in now..C30_Midnight(C30_Today + 2) :
                /\ seg'.period \in C30_Daily
                /\ should_update_data(cache_info', seg'.period, t)
                      = (t > C30_Midnight(C30_Today + 1))
                /\ \A p \in C30_Daily :
                      C30_Due(LedgerEntry(cache_info', seg'.period), p, t)
                         = (t > C30_Midnight(C30_Today + 1))]_vars

\* A refresh in the course of a day has stamped the ledger: no update is due
\* at the following midnight, one is due an instant later.
C30_Witness ==
    /\ seg.op = "get_segmented_data"
    /\ seg.update_needed
    /\ ~seg.raised
    /\ DOMAIN seg.result # {}
    /\ now # C30_Midnight(C30_Today)
    /\ LedgerEntry(cache_info, seg.period) = strftime(now)
    /\ ~should_update_data(cache_info, seg.period, C30_Midnight(C30_Today + 1))
    /\ should_update_data(cache_info, seg.period,
                          C30_Midnight(C30_Today + 1) + 1)

====
